---- MODULE Spec2Model ----
(***************************************************************************)
(* socks-puppet: a thread-per-connection SOCKS5 proxy (src/main.rs).       *)
(*                                                                         *)
(* The model follows the control flow of main, handle_client,             *)
(* handle_connect, handle_bind and handle_udp.  Every blocking call        *)
(* (read_exact, write_all, connect, accept, io::copy's read and write,     *)
(* join) is one step; every `?` is modelled with both of its outcomes.     *)
(* All state is per session (one session = one accepted connection and     *)
(* the thread that runs handle_client on it).                              *)
(***************************************************************************)
EXTENDS Integers, Sequences, FiniteSets, TLC

(***************************************************************************)
(* Bounds of the model.                                                    *)
(***************************************************************************)
MaxSessions == 2   \* connections the accept loop hands out
MaxMethods  == 2   \* largest nmethods byte a client sends (the code: 0..255)
MaxRelay    == 2   \* bytes a peer sends into one direction of a tunnel

(***************************************************************************)
(* Program constants and the byte values clients are drawn from.           *)
(***************************************************************************)
SOCKS_VERSION == 5

Sessions     == 1..MaxSessions
VersionBytes == {4, 5}             \* header[0]
MethodBytes  == {0, 2}             \* each byte of `methods`
CommandBytes == {1, 2, 3, 5}       \* request[1]
AddrTypes    == {1, 3, 4, 2}       \* request[3]
DomainLens   == {0, 3}             \* len[0] of a domain name
PortInputs   == {<<0, 80>>, <<31, 144>>}  \* port_bytes
EphemeralPorts == {1024, 65535}    \* local_addr().port() of a fresh socket
TunnelBytes  == {7, 9}             \* payload bytes of a tunnel

Directions == {"c2t", "t2c"}       \* client_to_target, target_to_client
Conns      == {"client", "target"}

NoByte == -1

VARIABLES
  main,          \* main's accept loop: "Listening", or "Exited" once main returned
  pc,            \* pc[s]: where the thread running handle_client is
  result,        \* result[s]: what handle_client returned ("None" while running)
  open,          \* open[s]: the socket handles of the session that are alive
  header,        \* header[s]: <<version, nmethods>> once read, else <<>>
  methods,       \* methods[s]: the method bytes read
  command,       \* command[s]: request[1], NoByte before it is read
  address_type,  \* address_type[s]: request[3], NoByte before it is read
  len,           \* len[s]: the domain length byte, NoByte if none was read
  port_bytes,    \* port_bytes[s]: the two port bytes read, <<>> before
  port,          \* port[s]: u16::from_be_bytes(port_bytes), NoByte before
  connect_res,   \* connect_res[s]: "Ok" / "Err" of TcpStream::connect, else "None"
  bind_port,     \* bind_port[s]: bind_addr.port() of handle_bind / handle_udp
  nread,         \* nread[s]: bytes handle_client consumed from the client
  cwrites,       \* cwrites[s]: the buffers handle_client passed to write_all
  sent,          \* sent[s][c]: the <<thread, byte>> delivered to the peer of
                 \*             connection c, in the order of delivery
  io,            \* io[s]: <<thread, "r"|"w", connection>> operations performed
  th,            \* th[s][d]: state of the relay thread of direction d
  rbuf,          \* rbuf[s][d]: bytes io::copy has read and not yet written
  rsrc           \* rsrc[s][d]: all bytes io::copy has read from its source

ctlVars   == <<pc, result, open>>
parseVars == <<header, methods, command, address_type, len, port_bytes, port>>
ioVars    == <<nread, cwrites, sent, io>>
relayVars == <<th, rbuf, rsrc>>
vars == <<main, pc, result, open, header, methods, command, address_type, len,
          port_bytes, port, connect_res, bind_port, nread, cwrites, sent, io,
          th, rbuf, rsrc>>

(***************************************************************************)
(* Helpers.                                                                *)
(***************************************************************************)
SeqsUpTo(S, n) == UNION {[1..k -> S] : k \in 0..n}

\* The bytes of a delivered stream, and the stream thread `by` delivers.
Bytes(st) == [i \in 1..Len(st) |-> st[i][2]]
Tag(by, bs) == [i \in 1..Len(bs) |-> <<by, bs[i]>>]

\* methods.contains(&0) of line 39
Contains_OrEmpty(seq, b) == seq = <<>> \/ \E i \in 1..Len(seq) : seq[i] = b

Contains(seq, b) == \E i \in 1..Len(seq) : seq[i] = b

\* u16::from_be_bytes
FromBeBytes(hi, lo) == (hi * 256 + lo) % 65536

\* (p >> 8) as u8 and p as u8
HiByte_NoShift(p) == p % 256

HiByte(p) == (p \div 256) % 256
LoByte(p) == p % 256

\* The 10-byte reply every handler builds.
Reply_ShortAddress(status, p) ==
  <<SOCKS_VERSION, status, 0, 1, 0, 0, 0, HiByte(p), LoByte(p)>>

Reply(status, p) ==
  <<SOCKS_VERSION, status, 0, 1, 0, 0, 0, 0, HiByte(p), LoByte(p)>>

\* The two replies of the method selection.
NoAcceptableMethods == <<SOCKS_VERSION, 255>>
NoAuthRequired      == <<SOCKS_VERSION, 0>>

\* What each relay thread reads from and writes to, and the handles moved
\* into its closure (dropped when the closure ends).
Source_Client(d) == "client"

Source(d) == IF d = "c2t" THEN "client" ELSE "target"
Dest_Client(d) == "client"

Dest(d)   == IF d = "c2t" THEN "target" ELSE "client"
Owned(d)  == IF d = "c2t" THEN {"client_clone1", "target"}
                          ELSE {"target_clone", "client_clone2"}

\* The handles that refer to each connection.
HandlesOf(c) == IF c = "client" THEN {"client", "client_clone1", "client_clone2"}
                                ELSE {"target", "target_clone"}
ConnOpen(s, c) == open[s] \cap HandlesOf(c) # {}

Running(s, d) == th[s][d] \in {"Reading", "Writing"}

\* The handles the handle_client thread still owns: everything alive that
\* was not moved into a running relay thread.
DriverOwned_KeepsClient(s) ==
  (open[s] \ UNION {Owned(d) : d \in {e \in Directions : Running(s, e)}}) \ {"client"}

DriverOwned(s) == open[s] \ UNION {Owned(d) : d \in {e \in Directions : Running(s, e)}}

Upd(f, s, v) == [f EXCEPT ![s] = v]

Init ==
  /\ main = "Listening"
  /\ pc = [s \in Sessions |-> "NotAccepted"]
  /\ result = [s \in Sessions |-> "None"]
  /\ open = [s \in Sessions |-> {}]
  /\ header = [s \in Sessions |-> <<>>]
  /\ methods = [s \in Sessions |-> <<>>]
  /\ command = [s \in Sessions |-> NoByte]
  /\ address_type = [s \in Sessions |-> NoByte]
  /\ len = [s \in Sessions |-> NoByte]
  /\ port_bytes = [s \in Sessions |-> <<>>]
  /\ port = [s \in Sessions |-> NoByte]
  /\ connect_res = [s \in Sessions |-> "None"]
  /\ bind_port = [s \in Sessions |-> NoByte]
  /\ nread = [s \in Sessions |-> 0]
  /\ cwrites = [s \in Sessions |-> <<>>]
  /\ sent = [s \in Sessions |-> [c \in Conns |-> <<>>]]
  /\ io = [s \in Sessions |-> {}]
  /\ th = [s \in Sessions |-> [d \in Directions |-> "NotStarted"]]
  /\ rbuf = [s \in Sessions |-> [d \in Directions |-> <<>>]]
  /\ rsrc = [s \in Sessions |-> [d \in Directions |-> <<>>]]

(***************************************************************************)
(* Building blocks of the handle_client thread's steps.                    *)
(***************************************************************************)
\* The thread moves on to the blocking call at `next`.
Goto(s, next) ==
  /\ pc' = Upd(pc, s, next)
  /\ UNCHANGED <<result, open>>

\* handle_client returns `res`; every handle it owns is dropped.
Return(s, res) ==
  /\ pc' = Upd(pc, s, "Closed")
  /\ result' = Upd(result, s, res)
  /\ open' = Upd(open, s, open[s] \ DriverOwned(s))

\* client.read_exact of n bytes consumed k of them (k = n: it succeeded).
DriverRead(s, k) ==
  /\ nread' = Upd(nread, s, nread[s] + k)
  /\ io' = Upd(io, s, io[s] \cup {<<"driver", "r", "client">>})
  /\ UNCHANGED <<cwrites, sent>>

\* client.write_all(buf) delivered k bytes of buf (k = Len(buf): it succeeded).
DriverWrite(s, buf, k) ==
  /\ cwrites' = Upd(cwrites, s, Append(cwrites[s], buf))
  /\ sent' = Upd(sent, s, [sent[s] EXCEPT !["client"] = @ \o Tag("driver", SubSeq(buf, 1, k))])
  /\ io' = Upd(io, s, io[s] \cup {<<"driver", "w", "client">>})
  /\ UNCHANGED nread

\* A read_exact of n > 0 bytes that fails (end of stream or error) after k < n.
ReadFails(s, n) ==
  /\ n > 0
  /\ \E k \in 0..(n - 1) : DriverRead(s, k)
  /\ Return(s, "IoError")

(***************************************************************************)
(* main, lines 188-207.                                                    *)
(***************************************************************************)
\* listener.incoming() yields Ok(client), peer_addr() succeeds, the session
\* thread is spawned.
Accept(s) ==
  /\ main = "Listening"
  /\ pc[s] = "NotAccepted"
  /\ \A r \in Sessions : r < s => pc[r] # "NotAccepted"
  /\ pc' = Upd(pc, s, "ReadHeader")
  /\ open' = Upd(open, s, {"client"})
  /\ UNCHANGED <<main, result, parseVars, bind_port, connect_res, ioVars, relayVars>>

\* client.peer_addr()? fails: main returns the error and the process ends.
AcceptPeerAddrFails(s) ==
  /\ main = "Listening"
  /\ pc[s] = "NotAccepted"
  /\ \A r \in Sessions : r < s => pc[r] # "NotAccepted"
  /\ main' = "Exited"
  /\ UNCHANGED <<ctlVars, parseVars, bind_port, connect_res, ioVars, relayVars>>

(***************************************************************************)
(* handle_client, lines 22-100.                                            *)
(***************************************************************************)
\* Line 30: the version check.
VersionOk_AtMost(v) == v <= SOCKS_VERSION

VersionOk(v) == v = SOCKS_VERSION

\* Lines 24-32: read version and nmethods, check the version.
ReadHeader(s) ==
  /\ main = "Listening"
  /\ pc[s] = "ReadHeader"
  /\ \/ /\ \E v \in VersionBytes, n \in 0..MaxMethods :
             /\ header' = Upd(header, s, <<v, n>>)
             /\ IF ~VersionOk(v)
                  THEN Return(s, "UnsupportedVersion")
                  ELSE Goto(s, "ReadMethods")
        /\ DriverRead(s, 2)
     \/ /\ ReadFails(s, 2)
        /\ UNCHANGED header
  /\ UNCHANGED <<main, methods, command, address_type, len, port_bytes, port, bind_port, connect_res, relayVars>>

\* Lines 35-36: read nmethods method bytes.
ReadMethods(s) ==
  /\ main = "Listening"
  /\ pc[s] = "ReadMethods"
  /\ \/ /\ \E m \in [1..header[s][2] -> MethodBytes] : methods' = Upd(methods, s, m)
        /\ DriverRead(s, header[s][2])
        /\ Goto(s, "SelectMethod")
     \/ /\ ReadFails(s, header[s][2])
        /\ UNCHANGED methods
  /\ UNCHANGED <<main, header, command, address_type, len, port_bytes, port, bind_port, connect_res, relayVars>>

\* Lines 39-46: the method selection reply.
SelectedReply_Inverted(m) == IF Contains(m, 0) THEN NoAcceptableMethods ELSE NoAuthRequired

SelectedReply(m) == IF ~Contains(m, 0) THEN NoAcceptableMethods ELSE NoAuthRequired

SelectMethod(s) ==
  /\ main = "Listening"
  /\ pc[s] = "SelectMethod"
  /\ LET buf == SelectedReply(methods[s]) IN
       \E k \in 0..Len(buf) :
         /\ DriverWrite(s, buf, k)
         /\ IF k < Len(buf) THEN Return(s, "IoError")
            ELSE IF ~Contains(methods[s], 0) THEN Return(s, "UnsupportedAuthMethod")
            ELSE Goto(s, "ReadRequest")
  /\ UNCHANGED <<main, parseVars, bind_port, connect_res, relayVars>>

\* Lines 49-53 and the match of line 56: read the 4-byte request header; an
\* address type outside 0x01, 0x03, 0x04 returns at line 76.
AddrStep_DefaultIPv4(atyp) ==
  CASE atyp = 3 -> "ReadDomainLen"
    [] OTHER    -> "ReadAddr"

AddrStep(atyp) ==
  CASE atyp = 1 -> "ReadAddr"
    [] atyp = 3 -> "ReadDomainLen"
    [] atyp = 4 -> "ReadAddr"
    [] OTHER    -> "Closed"

ReadRequest_CommandFirst(s) ==
  /\ main = "Listening"
  /\ pc[s] = "ReadRequest"
  /\ \/ /\ \E ver \in VersionBytes, cmd \in CommandBytes, rsv \in {0, 1}, atyp \in AddrTypes :
             /\ command' = Upd(command, s, cmd)
             /\ address_type' = Upd(address_type, s, atyp)
             /\ IF cmd \notin {1, 2, 3}
                  THEN Return(s, "UnsupportedCommand")
                  ELSE IF AddrStep(atyp) = "Closed"
                         THEN Return(s, "UnsupportedAddressType")
                         ELSE Goto(s, AddrStep(atyp))
        /\ DriverRead(s, 4)
     \/ /\ ReadFails(s, 4)
        /\ UNCHANGED <<command, address_type>>
  /\ UNCHANGED <<main, header, methods, len, port_bytes, port, bind_port, connect_res, relayVars>>

ReadRequest(s) ==
  /\ main = "Listening"
  /\ pc[s] = "ReadRequest"
  /\ \/ /\ \E ver \in VersionBytes, cmd \in CommandBytes, rsv \in {0, 1}, atyp \in AddrTypes :
             /\ command' = Upd(command, s, cmd)
             /\ address_type' = Upd(address_type, s, atyp)
             /\ IF AddrStep(atyp) = "Closed"
                  THEN Return(s, "UnsupportedAddressType")
                  ELSE Goto(s, AddrStep(atyp))
        /\ DriverRead(s, 4)
     \/ /\ ReadFails(s, 4)
        /\ UNCHANGED <<command, address_type>>
  /\ UNCHANGED <<main, header, methods, len, port_bytes, port, bind_port, connect_res, relayVars>>

\* Lines 58-59 (IPv4) and 70-71 (IPv6): the fixed-size address.
AddrLen_Always4(atyp) == 4

AddrLen(atyp) == IF atyp = 1 THEN 4 ELSE 16

ReadAddr(s) ==
  /\ main = "Listening"
  /\ pc[s] = "ReadAddr"
  /\ \/ /\ DriverRead(s, AddrLen(address_type[s]))
        /\ Goto(s, "ReadPort")
     \/ ReadFails(s, AddrLen(address_type[s]))
  /\ UNCHANGED <<main, parseVars, bind_port, connect_res, relayVars>>

\* Lines 63-64: the length byte of a domain name.
ReadDomainLen(s) ==
  /\ main = "Listening"
  /\ pc[s] = "ReadDomainLen"
  /\ \/ /\ \E l \in DomainLens : len' = Upd(len, s, l)
        /\ DriverRead(s, 1)
        /\ Goto(s, "ReadDomain")
     \/ /\ ReadFails(s, 1)
        /\ UNCHANGED len
  /\ UNCHANGED <<main, header, methods, command, address_type, port_bytes, port, bind_port, connect_res, relayVars>>

\* Lines 65-67: the len[0] bytes of the domain name.
ReadDomain(s) ==
  /\ main = "Listening"
  /\ pc[s] = "ReadDomain"
  /\ \/ /\ DriverRead(s, len[s])
        /\ Goto(s, "ReadPort")
     \/ ReadFails(s, len[s])
  /\ UNCHANGED <<main, parseVars, bind_port, connect_res, relayVars>>

\* Lines 94-99: the command dispatch; the first blocking call of the handler.
Dispatch_DefaultConnect(cmd) ==
  CASE cmd = 2 -> "BindListen"
    [] cmd = 3 -> "UdpBind"
    [] OTHER   -> "Connect"

Dispatch_Retry(cmd) ==
  CASE cmd = 1 -> "Connect"
    [] cmd = 2 -> "BindListen"
    [] cmd = 3 -> "UdpBind"
    [] OTHER   -> "ReadRequest"

Dispatch(cmd) ==
  CASE cmd = 1 -> "Connect"
    [] cmd = 2 -> "BindListen"
    [] cmd = 3 -> "UdpBind"
    [] OTHER   -> "Closed"

\* Lines 80-99: read the port, then dispatch on the command.
ReadPort(s) ==
  /\ main = "Listening"
  /\ pc[s] = "ReadPort"
  /\ \/ /\ \E pb \in PortInputs :
             /\ port_bytes' = Upd(port_bytes, s, pb)
             /\ port' = Upd(port, s, FromBeBytes(pb[1], pb[2]))
        /\ DriverRead(s, 2)
        /\ IF Dispatch(command[s]) = "Closed"
             THEN Return(s, "UnsupportedCommand")
             ELSE Goto(s, Dispatch(command[s]))
     \/ /\ ReadFails(s, 2)
        /\ UNCHANGED <<port_bytes, port>>
  /\ UNCHANGED <<main, header, methods, command, address_type, len, bind_port, connect_res, relayVars>>

(***************************************************************************)
(* handle_connect, lines 102-143.                                          *)
(***************************************************************************)
\* Line 104: TcpStream::connect succeeds or fails.
Connect(s) ==
  /\ main = "Listening"
  /\ pc[s] = "Connect"
  /\ \/ /\ pc' = Upd(pc, s, "ConnectReply")
        /\ open' = Upd(open, s, open[s] \cup {"target"})
        /\ connect_res' = Upd(connect_res, s, "Ok")
     \/ /\ pc' = Upd(pc, s, "ConnectFailReply")
        /\ connect_res' = Upd(connect_res, s, "Err")
        /\ UNCHANGED open
  /\ UNCHANGED <<main, result, parseVars, bind_port, ioVars, relayVars>>

\* Lines 107-112: the success reply.
ConnectResponse(p) == Reply(0, p)

ConnectReply_IgnoresError(s) ==
  /\ main = "Listening"
  /\ pc[s] = "ConnectReply"
  /\ LET buf == ConnectResponse(port[s]) IN
       \E k \in 0..Len(buf) :
         /\ DriverWrite(s, buf, k)
         /\ Goto(s, "Clone")
  /\ UNCHANGED <<main, parseVars, bind_port, connect_res, relayVars>>

ConnectReply(s) ==
  /\ main = "Listening"
  /\ pc[s] = "ConnectReply"
  /\ LET buf == ConnectResponse(port[s]) IN
       \E k \in 0..Len(buf) :
         /\ DriverWrite(s, buf, k)
         /\ IF k < Len(buf) THEN Return(s, "IoError") ELSE Goto(s, "Clone")
  /\ UNCHANGED <<main, parseVars, bind_port, connect_res, relayVars>>

\* Lines 134-140: the failure reply; the connect error is returned.
ConnectFailResponse_Success == Reply(0, 0)

ConnectFailResponse == Reply(1, 0)

ConnectFailReply(s) ==
  /\ main = "Listening"
  /\ pc[s] = "ConnectFailReply"
  /\ LET buf == ConnectFailResponse IN
       \E k \in 0..Len(buf) :
         /\ DriverWrite(s, buf, k)
         /\ Return(s, "IoError")
  /\ UNCHANGED <<main, parseVars, bind_port, connect_res, relayVars>>

\* Lines 115-117: the three try_clone calls; any of them may fail.
Clone_LeaksTarget(s) ==
  /\ main = "Listening"
  /\ pc[s] = "Clone"
  /\ \/ /\ pc' = Upd(pc, s, "SpawnC2T")
        /\ open' = Upd(open, s, open[s] \cup {"target_clone", "client_clone1", "client_clone2"})
        /\ UNCHANGED result
     \/ /\ pc' = Upd(pc, s, "Closed")
        /\ result' = Upd(result, s, "IoError")
        /\ open' = Upd(open, s, open[s] \ {"client"})
  /\ UNCHANGED <<main, parseVars, bind_port, connect_res, ioVars, relayVars>>

Clone(s) ==
  /\ main = "Listening"
  /\ pc[s] = "Clone"
  /\ \/ /\ pc' = Upd(pc, s, "SpawnC2T")
        /\ open' = Upd(open, s, open[s] \cup {"target_clone", "client_clone1", "client_clone2"})
        /\ UNCHANGED result
     \/ Return(s, "IoError")
  /\ UNCHANGED <<main, parseVars, bind_port, connect_res, ioVars, relayVars>>

\* Lines 119-121 and 123-125: thread::spawn of each direction.
SpawnNext(d) == IF d = "c2t" THEN "SpawnT2C" ELSE "JoinC2T"

Spawn(s, d) ==
  /\ main = "Listening"
  /\ pc[s] = (IF d = "c2t" THEN "SpawnC2T" ELSE "SpawnT2C")
  /\ th' = Upd(th, s, [th[s] EXCEPT ![d] = "Reading"])
  /\ Goto(s, SpawnNext(d))
  /\ UNCHANGED <<main, parseVars, bind_port, connect_res, ioVars, rbuf, rsrc>>

\* Lines 127-128: join, in this order; then Ok(()) at line 130.
JoinStep(d) == IF d = "c2t" THEN "JoinC2T" ELSE "JoinT2C"

Join_FirstOnly(s, d) ==
  /\ main = "Listening"
  /\ pc[s] = JoinStep(d)
  /\ th[s][d] = "Done"
  /\ Return(s, "Ok")
  /\ UNCHANGED <<main, parseVars, bind_port, connect_res, ioVars, relayVars>>

Join(s, d) ==
  /\ main = "Listening"
  /\ pc[s] = JoinStep(d)
  /\ th[s][d] = "Done"
  /\ IF d = "c2t" THEN Goto(s, "JoinT2C") ELSE Return(s, "Ok")
  /\ UNCHANGED <<main, parseVars, bind_port, connect_res, ioVars, relayVars>>

(***************************************************************************)
(* io::copy in a relay thread, lines 120 and 124.                          *)
(***************************************************************************)
\* The closure ends: the thread is done and its handles are dropped.
RelayEnd(s, d) ==
  /\ th' = Upd(th, s, [th[s] EXCEPT ![d] = "Done"])
  /\ rbuf' = Upd(rbuf, s, [rbuf[s] EXCEPT ![d] = <<>>])
  /\ open' = Upd(open, s, open[s] \ Owned(d))

\* One read of io::copy: a chunk of bytes, or 0 bytes / an error, which ends
\* the copy.
RelayRead(s, d) ==
  /\ main = "Listening"
  /\ th[s][d] = "Reading"
  /\ io' = Upd(io, s, io[s] \cup {<<d, "r", Source(d)>>})
  /\ \/ /\ \E chunk \in SeqsUpTo(TunnelBytes, MaxRelay - Len(rsrc[s][d])) :
             /\ chunk # <<>>
             /\ rbuf' = Upd(rbuf, s, [rbuf[s] EXCEPT ![d] = chunk])
             /\ rsrc' = Upd(rsrc, s, [rsrc[s] EXCEPT ![d] = @ \o chunk])
        /\ th' = Upd(th, s, [th[s] EXCEPT ![d] = "Writing"])
        /\ UNCHANGED open
     \/ /\ RelayEnd(s, d)
        /\ UNCHANGED rsrc
  /\ UNCHANGED <<main, pc, result, parseVars, bind_port, connect_res, nread, cwrites, sent>>

\* write_all of the chunk: all of it, or a part of it and an error, which
\* ends the copy.
RelayWrite(s, d) ==
  /\ main = "Listening"
  /\ th[s][d] = "Writing"
  /\ io' = Upd(io, s, io[s] \cup {<<d, "w", Dest(d)>>})
  /\ \E k \in 0..Len(rbuf[s][d]) :
       /\ sent' = Upd(sent, s, [sent[s] EXCEPT ![Dest(d)] = @ \o Tag(d, SubSeq(rbuf[s][d], 1, k))])
       /\ IF k = Len(rbuf[s][d])
            THEN /\ th' = Upd(th, s, [th[s] EXCEPT ![d] = "Reading"])
                 /\ rbuf' = Upd(rbuf, s, [rbuf[s] EXCEPT ![d] = <<>>])
                 /\ UNCHANGED open
            ELSE RelayEnd(s, d)
  /\ UNCHANGED <<main, pc, result, parseVars, bind_port, connect_res, nread, cwrites, rsrc>>

(***************************************************************************)
(* handle_bind, lines 145-167.                                             *)
(***************************************************************************)
\* Lines 147-148: TcpListener::bind and local_addr; either may fail.
BindListen(s) ==
  /\ main = "Listening"
  /\ pc[s] = "BindListen"
  /\ \/ /\ \E p \in EphemeralPorts : bind_port' = Upd(bind_port, s, p)
        /\ pc' = Upd(pc, s, "BindReply1")
        /\ open' = Upd(open, s, open[s] \cup {"listener"})
        /\ UNCHANGED result
     \/ /\ Return(s, "IoError")
        /\ UNCHANGED bind_port
  /\ UNCHANGED <<main, parseVars, connect_res, ioVars, relayVars>>

\* Lines 151-156: the reply of handle_bind, written once or twice.
BindResponse(p) == Reply(0, p)

\* Line 157: the first reply.
BindReply1(s) ==
  /\ main = "Listening"
  /\ pc[s] = "BindReply1"
  /\ LET buf == BindResponse(bind_port[s]) IN
       \E k \in 0..Len(buf) :
         /\ DriverWrite(s, buf, k)
         /\ IF k < Len(buf) THEN Return(s, "IoError") ELSE Goto(s, "BindAccept")
  /\ UNCHANGED <<main, parseVars, bind_port, connect_res, relayVars>>

\* Line 160: listener.accept(); on Err the if-let is skipped and line 166
\* returns Ok(()).
BindAccept(s) ==
  /\ main = "Listening"
  /\ pc[s] = "BindAccept"
  /\ \/ /\ pc' = Upd(pc, s, "BindReply2")
        /\ open' = Upd(open, s, open[s] \cup {"accepted"})
        /\ UNCHANGED result
     \/ Return(s, "Ok")
  /\ UNCHANGED <<main, parseVars, bind_port, connect_res, ioVars, relayVars>>

\* Lines 162-166: the second reply, then Ok(()).
BindReply2_RequestPort(s) ==
  /\ main = "Listening"
  /\ pc[s] = "BindReply2"
  /\ LET buf == BindResponse(port[s]) IN
       \E k \in 0..Len(buf) :
         /\ DriverWrite(s, buf, k)
         /\ IF k < Len(buf) THEN Return(s, "IoError") ELSE Return(s, "Ok")
  /\ UNCHANGED <<main, parseVars, bind_port, connect_res, relayVars>>

BindReply2(s) ==
  /\ main = "Listening"
  /\ pc[s] = "BindReply2"
  /\ LET buf == BindResponse(bind_port[s]) IN
       \E k \in 0..Len(buf) :
         /\ DriverWrite(s, buf, k)
         /\ IF k < Len(buf) THEN Return(s, "IoError") ELSE Return(s, "Ok")
  /\ UNCHANGED <<main, parseVars, bind_port, connect_res, relayVars>>

(***************************************************************************)
(* handle_udp, lines 169-186.                                              *)
(***************************************************************************)
\* Lines 171-172: UdpSocket::bind and local_addr; either may fail.
UdpBind(s) ==
  /\ main = "Listening"
  /\ pc[s] = "UdpBind"
  /\ \/ /\ \E p \in EphemeralPorts : bind_port' = Upd(bind_port, s, p)
        /\ pc' = Upd(pc, s, "UdpReply")
        /\ open' = Upd(open, s, open[s] \cup {"udp_socket"})
        /\ UNCHANGED result
     \/ /\ Return(s, "IoError")
        /\ UNCHANGED bind_port
  /\ UNCHANGED <<main, parseVars, connect_res, ioVars, relayVars>>

\* Lines 175-185: the reply, then Ok(()).
UdpResponse_NoPort(p) == Reply(0, 0)

UdpResponse(p) == Reply(0, p)

UdpReply(s) ==
  /\ main = "Listening"
  /\ pc[s] = "UdpReply"
  /\ LET buf == UdpResponse(bind_port[s]) IN
       \E k \in 0..Len(buf) :
         /\ DriverWrite(s, buf, k)
         /\ IF k < Len(buf) THEN Return(s, "IoError") ELSE Return(s, "Ok")
  /\ UNCHANGED <<main, parseVars, bind_port, connect_res, relayVars>>

(***************************************************************************)
(* Specifications.                                                         *)
(***************************************************************************)
\* Every step session s and the accept of s can take.
Handshake(s) == ReadHeader(s) \/ ReadMethods(s) \/ SelectMethod(s)
Request(s)   == ReadRequest(s) \/ ReadAddr(s) \/ ReadDomainLen(s) \/ ReadDomain(s) \/ ReadPort(s)
ConnectCmd(s) ==
  \/ Connect(s) \/ ConnectReply(s) \/ ConnectFailReply(s) \/ Clone(s)
  \/ \E d \in Directions : Spawn(s, d) \/ Join(s, d)
Relay(s)     == \E d \in Directions : RelayRead(s, d) \/ RelayWrite(s, d)
BindCmd(s)   == BindListen(s) \/ BindReply1(s) \/ BindAccept(s) \/ BindReply2(s)
UdpCmd(s)    == UdpBind(s) \/ UdpReply(s)

Step(s) ==
  \/ Accept(s) \/ AcceptPeerAddrFails(s)
  \/ Handshake(s) \/ Request(s)
  \/ ConnectCmd(s) \/ Relay(s)
  \/ BindCmd(s) \/ UdpCmd(s)

\* One connection, followed from accept to the end of its session.
Next == Step(1)

Spec == Init /\ [][Next]_vars

\* Session 1 on entry to handle_connect (line 102): the handshake [5,1,0]
\* was answered and a CONNECT request with an IPv4 address was read.
ConnectInit ==
  /\ main = "Listening"
  /\ pc = [s \in Sessions |-> IF s = 1 THEN "Connect" ELSE "NotAccepted"]
  /\ result = [s \in Sessions |-> "None"]
  /\ open = [s \in Sessions |-> IF s = 1 THEN {"client"} ELSE {}]
  /\ header = [s \in Sessions |-> IF s = 1 THEN <<SOCKS_VERSION, 1>> ELSE <<>>]
  /\ methods = [s \in Sessions |-> IF s = 1 THEN <<0>> ELSE <<>>]
  /\ command = [s \in Sessions |-> IF s = 1 THEN 1 ELSE NoByte]
  /\ address_type = [s \in Sessions |-> IF s = 1 THEN 1 ELSE NoByte]
  /\ len = [s \in Sessions |-> NoByte]
  /\ \E pb \in PortInputs :
       /\ port_bytes = [s \in Sessions |-> IF s = 1 THEN pb ELSE <<>>]
       /\ port = [s \in Sessions |-> IF s = 1 THEN FromBeBytes(pb[1], pb[2]) ELSE NoByte]
  /\ connect_res = [s \in Sessions |-> "None"]
  /\ bind_port = [s \in Sessions |-> NoByte]
  /\ nread = [s \in Sessions |-> IF s = 1 THEN 13 ELSE 0]
  /\ cwrites = [s \in Sessions |-> IF s = 1 THEN <<NoAuthRequired>> ELSE <<>>]
  /\ sent = [s \in Sessions |->
              [c \in Conns |-> IF s = 1 /\ c = "client"
                                 THEN Tag("driver", NoAuthRequired) ELSE <<>>]]
  /\ io = [s \in Sessions |->
            IF s = 1 THEN {<<"driver", "r", "client">>, <<"driver", "w", "client">>} ELSE {}]
  /\ th = [s \in Sessions |-> [d \in Directions |-> "NotStarted"]]
  /\ rbuf = [s \in Sessions |-> [d \in Directions |-> <<>>]]
  /\ rsrc = [s \in Sessions |-> [d \in Directions |-> <<>>]]

NextConnect == ConnectCmd(1) \/ Relay(1)

\* handle_connect of one session.  join() on a thread that has ended
\* returns: the handle_client thread is runnable then and the scheduler
\* runs it.  Nothing is assumed of the peers: a relay thread may block in a
\* read for ever.
LiveSpec ==
  /\ ConnectInit /\ [][NextConnect]_vars
  /\ WF_vars(Join(1, "c2t"))
  /\ WF_vars(Join(1, "t2c"))

\* The accept loop with every connection it hands out, each session followed
\* through its handshake and its request up to the entry of its command
\* handler (where it may stay blocked for ever).
StepMulti(s) ==
  \/ Accept(s) \/ AcceptPeerAddrFails(s)
  \/ Handshake(s) \/ Request(s)

NextMulti == \E s \in Sessions : StepMulti(s)

SpecMulti == Init /\ [][NextMulti]_vars

(***************************************************************************)
(* Properties.                                                             *)
(***************************************************************************)
HasZero(m) == \E i \in DOMAIN m : m[i] = 0

\* The method selection message of session s was read completely, with
\* version 5, and the step that answers it has been taken.
Negotiated(s) ==
  /\ header[s] # <<>>
  /\ header[s][1] = 5
  /\ Len(methods[s]) = header[s][2]
  /\ pc[s] \notin {"ReadMethods", "SelectMethod"}

\* The step of session s that answers the method selection message.
AnswersMethods(s) ==
  /\ pc[s] = "SelectMethod"
  /\ pc'[s] # "SelectMethod"
  /\ header[s][1] = 5

\* C1, as stated: after a version-5 handshake whose methods contain 0x00,
\* handle_client's one and first write is [5,0x00], delivered whole, and the
\* session goes on to read the request header.
C1_AsStated ==
  [][\A s \in Sessions :
       (AnswersMethods(s) /\ HasZero(methods[s])) =>
          /\ cwrites[s] = <<>> /\ sent[s].client = <<>>
          /\ cwrites'[s] = << <<5, 0>> >>
          /\ Bytes(sent'[s].client) = <<5, 0>>
          /\ pc'[s] = "ReadRequest"]_vars

\* C1, amended: after a version-5 handshake whose methods contain 0x00,
\* handle_client's one and first write is [5,0x00]; if that write succeeds
\* the client has received exactly [5,0x00] and the session goes on to read
\* the 4-byte request header; if it fails the session ends with IoError.
C1_MethodAccepted ==
  [][\A s \in Sessions :
       /\ (AnswersMethods(s) /\ HasZero(methods[s])) =>
             /\ cwrites[s] = <<>> /\ sent[s].client = <<>>
             /\ cwrites'[s] = << <<5, 0>> >>
             /\ \/ /\ Bytes(sent'[s].client) = <<5, 0>>
                   /\ pc'[s] = "ReadRequest"
                   /\ result'[s] = "None"
                \/ /\ Bytes(sent'[s].client) \in {<<>>, <<5>>}
                   /\ pc'[s] = "Closed"
                   /\ result'[s] = "IoError"
       /\ (pc[s] = "ReadRequest" /\ pc'[s] \notin {"ReadRequest", "Closed"}) =>
             /\ nread'[s] = nread[s] + 4
             /\ cwrites'[s] = << <<5, 0>> >>]_vars

C1_Witness ==
  \E s \in Sessions :
    /\ pc[s] = "ReadRequest"
    /\ Len(methods[s]) = 2 /\ methods[s][1] # 0 /\ methods[s][2] = 0
    /\ Bytes(sent[s].client) = <<5, 0>>

\* C2, as stated: after a version-5 handshake whose methods do not contain
\* 0x00 the session has written exactly [5,0xFF], has ended with
\* UnsupportedAuthMethod, and has read no request and written nothing more.
C2_AsStated ==
  \A s \in Sessions :
    (Negotiated(s) /\ ~HasZero(methods[s])) =>
       /\ pc[s] = "Closed"
       /\ result[s] = "UnsupportedAuthMethod"
       /\ cwrites[s] = << <<5, 255>> >>
       /\ Bytes(sent[s].client) = <<5, 255>>
       /\ nread[s] = 2 + header[s][2]
       /\ command[s] = NoByte

\* C2, amended: after a version-5 handshake whose methods do not contain
\* 0x00 (nmethods = 0 included) the only write of the session is [5,0xFF]
\* and no request is read; the session ends with UnsupportedAuthMethod if
\* that write succeeds and with IoError if it fails.
C2_MethodRejected ==
  \A s \in Sessions :
    (Negotiated(s) /\ ~HasZero(methods[s])) =>
       /\ pc[s] = "Closed"
       /\ cwrites[s] = << <<5, 255>> >>
       /\ nread[s] = 2 + header[s][2]
       /\ command[s] = NoByte /\ address_type[s] = NoByte
       /\ IF Bytes(sent[s].client) = <<5, 255>>
            THEN result[s] = "UnsupportedAuthMethod"
            ELSE /\ result[s] = "IoError"
                 /\ Bytes(sent[s].client) \in {<<>>, <<5>>}

C2_Witness ==
  \E s \in Sessions :
    /\ Negotiated(s)
    /\ header[s][2] = 0
    /\ result[s] = "UnsupportedAuthMethod"
    /\ Bytes(sent[s].client) = <<5, 255>>

\* C3: once a header whose first byte is not 5 has been read, the session is
\* over with UnsupportedVersion; it read nothing after the 2 header bytes
\* and no write was issued and no byte delivered to the client.
C3_VersionRejected ==
  \A s \in Sessions :
    (header[s] # <<>> /\ header[s][1] # 5) =>
       /\ pc[s] = "Closed"
       /\ result[s] = "UnsupportedVersion"
       /\ cwrites[s] = <<>>
       /\ sent[s].client = <<>>
       /\ nread[s] = 2
       /\ methods[s] = <<>>
       /\ \A op \in io[s] : op[2] # "w"

C3_Witness ==
  \E s \in Sessions :
    /\ header[s] # <<>> /\ header[s][1] # 5 /\ header[s][2] > 0
    /\ result[s] = "UnsupportedVersion"

IsPrefix(a, b) == Len(a) <= Len(b) /\ SubSeq(b, 1, Len(a)) = a

ByDriver(e) == e[1] = "driver"
ByRelay(e)  == e[1] # "driver"

\* Of a delivered stream: the bytes handle_client wrote, and the bytes the
\* relay threads wrote.
DriverPart(st) == Bytes(SelectSeq(st, ByDriver))
TunnelPart(st) == Bytes(SelectSeq(st, ByRelay))

\* Byte values at the edges of the two halves of a u16.
EdgeBytes == {0, 1, 127, 128, 255}

\* C4: once the outbound connect has succeeded and the reply step is taken,
\* the second write of the session is the 10 bytes [5,0,0,1,0,0,0,0,hi,lo]
\* with hi,lo the two port bytes read from the request; while the session
\* runs on, the client has received exactly [5,0] and these 10 bytes from
\* handle_client.  The success response built for the port decoded from any
\* two bytes ends with these two bytes.
C4_ConnectReplyEchoesPort ==
  \A s \in Sessions :
    (connect_res[s] = "Ok" /\ pc[s] # "ConnectReply") =>
       /\ \A hi, lo \in EdgeBytes :
            ConnectResponse(FromBeBytes(hi, lo)) = <<5, 0, 0, 1, 0, 0, 0, 0, hi, lo>>
       /\ Len(port_bytes[s]) = 2
       /\ cwrites[s] = << <<5, 0>>, <<5, 0, 0, 1, 0, 0, 0, 0>> \o port_bytes[s] >>
       /\ (pc[s] # "Closed" \/ result[s] = "Ok") =>
             DriverPart(sent[s].client) = <<5, 0, 5, 0, 0, 1, 0, 0, 0, 0>> \o port_bytes[s]

C4_Witness ==
  \E s \in Sessions :
    /\ connect_res[s] = "Ok"
    /\ pc[s] = "Clone"
    /\ port_bytes[s] = <<31, 144>>
    /\ Bytes(sent[s].client) = <<5, 0, 5, 0, 0, 1, 0, 0, 0, 0, 31, 144>>

\* C5: in each direction of a tunnel the bytes delivered to the destination
\* are a prefix of the bytes read from the source, and nothing else reaches
\* the destination: the target receives bytes of the client->target thread
\* only, and the client, after what handle_client wrote, bytes of the
\* target->client thread only.
C5_RelayPrefix ==
  \A s \in Sessions :
    /\ IsPrefix(Bytes(sent[s].target), rsrc[s].c2t)
    /\ IsPrefix(TunnelPart(sent[s].client), rsrc[s].t2c)
    /\ \A i \in DOMAIN sent[s].target : sent[s].target[i][1] = "c2t"
    /\ \A i \in DOMAIN sent[s].client : sent[s].client[i][1] \in {"driver", "t2c"}
    /\ \A i, j \in DOMAIN sent[s].client :
         (i < j /\ sent[s].client[i][1] = "t2c") => sent[s].client[j][1] = "t2c"

C5_Witness ==
  \E s \in Sessions :
    /\ Bytes(sent[s].target) = <<7, 9>>
    /\ TunnelPart(sent[s].client) = <<9, 7>>
    /\ rsrc[s].c2t = <<7, 9>>

\* C6: once the outbound connect has failed, no relay thread is ever started
\* and no byte is forwarded; after the reply step the second write of the
\* session is [5,1,0,1,0,0,0,0,0,0] whatever the requested port, and the
\* session is over with a transport error.
C6_ConnectFailure ==
  \A s \in Sessions :
    connect_res[s] = "Err" =>
       /\ \A d \in Directions : th[s][d] = "NotStarted" /\ rsrc[s][d] = <<>>
       /\ sent[s].target = <<>>
       /\ TunnelPart(sent[s].client) = <<>>
       /\ ~ConnOpen(s, "target")
       /\ pc[s] \in {"ConnectFailReply", "Closed"}
       /\ pc[s] = "Closed" =>
            /\ result[s] = "IoError"
            /\ cwrites[s] = << <<5, 0>>, <<5, 1, 0, 1, 0, 0, 0, 0, 0, 0>> >>
            /\ IsPrefix(Bytes(sent[s].client), <<5, 0, 5, 1, 0, 1, 0, 0, 0, 0, 0, 0>>)

C6_Witness ==
  \E s \in Sessions :
    /\ connect_res[s] = "Err"
    /\ pc[s] = "Closed"
    /\ port[s] = 8080
    /\ Bytes(sent[s].client) = <<5, 0, 5, 1, 0, 1, 0, 0, 0, 0, 0, 0>>

\* C7, as stated: every session that read a request whose command byte is
\* not 1, 2 or 3 and did not fail on the transport ends with
\* UnsupportedCommand, having written only [5,0].
C7_AsStated ==
  \A s \in Sessions :
    (command[s] \notin {NoByte, 1, 2, 3} /\ pc[s] = "Closed" /\ result[s] # "IoError") =>
       /\ result[s] = "UnsupportedCommand"
       /\ cwrites[s] = << <<5, 0>> >>

\* C7, amended: for a request whose command byte is not 1, 2 or 3, whose
\* address type is 1, 3 or 4 and whose address and port were read, the
\* session ends with UnsupportedCommand; a request whose address type is
\* unsupported as well ends with UnsupportedAddressType; in all cases no
\* reply to the request is written: the client has received [5,0] only.
C7_UnsupportedCommand ==
  \A s \in Sessions :
    command[s] \notin {NoByte, 1, 2, 3} =>
       /\ cwrites[s] = << <<5, 0>> >>
       /\ Bytes(sent[s].client) = <<5, 0>>
       /\ connect_res[s] = "None" /\ bind_port[s] = NoByte
       /\ port_bytes[s] # <<>> =>
            /\ address_type[s] \in {1, 3, 4}
            /\ pc[s] = "Closed"
            /\ result[s] = "UnsupportedCommand"
       /\ address_type[s] \notin {1, 3, 4} =>
            /\ pc[s] = "Closed"
            /\ result[s] = "UnsupportedAddressType"
       /\ pc[s] = "Closed" =>
            result[s] \in {"UnsupportedCommand", "UnsupportedAddressType", "IoError"}

C7_Witness ==
  \E s \in Sessions :
    /\ command[s] = 5
    /\ address_type[s] = 3 /\ len[s] = 3
    /\ port_bytes[s] = <<0, 80>>
    /\ result[s] = "UnsupportedCommand"

\* C8: once a request header with an address type other than 1, 3 or 4 has
\* been read, the session is over with UnsupportedAddressType; it consumed
\* nothing after the 4 header bytes, entered no command handler and wrote
\* no reply to the request.
C8_UnsupportedAddressType ==
  \A s \in Sessions :
    address_type[s] \notin {NoByte, 1, 3, 4} =>
       /\ pc[s] = "Closed"
       /\ result[s] = "UnsupportedAddressType"
       /\ nread[s] = 2 + header[s][2] + 4
       /\ len[s] = NoByte /\ port_bytes[s] = <<>> /\ port[s] = NoByte
       /\ connect_res[s] = "None" /\ bind_port[s] = NoByte
       /\ \A d \in Directions : th[s][d] = "NotStarted"
       /\ cwrites[s] = << <<5, 0>> >>
       /\ Bytes(sent[s].client) = <<5, 0>>

C8_Witness ==
  \E s \in Sessions :
    /\ address_type[s] = 2
    /\ command[s] = 1
    /\ result[s] = "UnsupportedAddressType"

Ended(s, d)   == th[s][d] = "Done"
Copying(s, d) == th[s][d] \in {"Reading", "Writing"}
Alive(s, c)   == \E h \in open[s] :
                   h \in (IF c = "client" THEN {"client", "client_clone1", "client_clone2"}
                                          ELSE {"target", "target_clone"})

\* C9: whenever both relay directions of a session have ended, handle_connect
\* eventually returns: the session is Closed with Ok, holds no socket handle
\* and has no relay thread left running.
C9_RelayTermination ==
  \A s \in Sessions :
    (Ended(s, "c2t") /\ Ended(s, "t2c")) ~>
       (/\ pc[s] = "Closed"
        /\ result[s] = "Ok"
        /\ open[s] = {}
        /\ \A d \in Directions : ~Copying(s, d))

C9_Witness ==
  \E s \in Sessions :
    /\ Ended(s, "c2t") /\ Ended(s, "t2c")
    /\ pc[s] = "Closed" /\ result[s] = "Ok"
    /\ open[s] = {}
    /\ Len(rsrc[s].c2t) = 2 /\ Len(rsrc[s].t2c) = 2

\* C10: while a relay thread of a session is still copying, handle_connect
\* has not returned and the client and the target connection are both open;
\* with one direction ended and the other not, the session is waiting in one
\* of the two joins.
C10_JoinsBoth ==
  \A s \in Sessions :
    /\ (\E d \in Directions : Copying(s, d)) =>
          /\ pc[s] \in {"SpawnT2C", "JoinC2T", "JoinT2C"}
          /\ result[s] = "None"
          /\ Alive(s, "client") /\ Alive(s, "target")
    /\ (\E d, e \in Directions : Ended(s, d) /\ Copying(s, e)) =>
          pc[s] \in {"JoinC2T", "JoinT2C"}
    /\ (pc[s] = "Closed" /\ connect_res[s] = "Ok" /\ result[s] = "Ok") =>
          \A d \in Directions : Ended(s, d)

C10_Witness ==
  \E s \in Sessions :
    /\ Ended(s, "c2t") /\ Copying(s, "t2c")
    /\ pc[s] = "JoinT2C"
    /\ Alive(s, "client") /\ Alive(s, "target")

\* Everything the model holds of session s.
SessionState(s) ==
  <<pc[s], result[s], open[s], header[s], methods[s], command[s], address_type[s],
    len[s], port_bytes[s], port[s], connect_res[s], bind_port[s], nread[s],
    cwrites[s], sent[s], io[s], th[s], rbuf[s], rsrc[s]>>

\* C11 (first half): a step changes the state, and so the bytes written, of
\* at most one session.
C11_Frame ==
  [][\A s, r \in Sessions :
       (s # r /\ SessionState(s)' # SessionState(s)) =>
          SessionState(r)' = SessionState(r)]_vars

\* C11: once a connection has been dispatched, every session that has not
\* ended can take its next step whatever happened to the other connections,
\* and the accept loop can dispatch the next connection.
C11_Isolation ==
  (\E s \in Sessions : pc[s] # "NotAccepted") =>
     /\ \A s \in Sessions : pc[s] \notin {"NotAccepted", "Closed"} => ENABLED Step(s)
     /\ (\E s \in Sessions : pc[s] = "NotAccepted") =>
           ENABLED (\E s \in Sessions : Accept(s))

\* The state of the session state machine that each position of the
\* handle_client thread belongs to.  handle_udp returns right after its
\* reply, so no position belongs to Idle.
StateOf(p) ==
  CASE p = "NotAccepted" -> "NotAccepted"
    [] p \in {"ReadHeader", "ReadMethods", "SelectMethod"} -> "AwaitHandshake"
    [] p \in {"ReadRequest", "ReadAddr", "ReadDomainLen", "ReadDomain", "ReadPort"}
         -> "AwaitRequest"
    [] p \in {"Connect", "ConnectReply", "ConnectFailReply", "Clone", "SpawnC2T"}
         -> "Connecting"
    [] p \in {"SpawnT2C", "JoinC2T", "JoinT2C"} -> "Relaying"
    [] p \in {"BindListen", "BindReply1"} -> "Binding"
    [] p \in {"BindAccept", "BindReply2"} -> "Accepting"
    [] p \in {"UdpBind", "UdpReply"} -> "UdpSetup"
    [] p = "Closed" -> "Closed"

PathEdges ==
  {<<"NotAccepted", "AwaitHandshake">>, <<"AwaitHandshake", "AwaitRequest">>,
   <<"AwaitRequest", "Connecting">>, <<"AwaitRequest", "Binding">>,
   <<"AwaitRequest", "UdpSetup">>, <<"Connecting", "Relaying">>,
   <<"Binding", "Accepting">>, <<"UdpSetup", "Idle">>}
  \cup {<<st, "Closed">> : st \in {"AwaitHandshake", "AwaitRequest", "Connecting",
                                   "Binding", "UdpSetup", "Relaying", "Accepting", "Idle"}}

\* C12: a session changes state only along the edges of the path or to
\* Closed, so no state is entered twice; the handshake and the request header
\* are read at most once; nothing of a Closed session changes any more; and a
\* session has a result (an error, or Ok after the relay, handle_bind or
\* handle_udp returned) exactly when it is Closed.
C12_ForwardPath ==
  [][\A s \in Sessions :
       /\ StateOf(pc'[s]) # StateOf(pc[s]) => <<StateOf(pc[s]), StateOf(pc'[s])>> \in PathEdges
       /\ header[s] # <<>> => header'[s] = header[s]
       /\ command[s] # NoByte => (command'[s] = command[s] /\ address_type'[s] = address_type[s])
       /\ pc[s] = "Closed" => SessionState(s)' = SessionState(s)
       /\ (result'[s] # "None") <=> (pc'[s] = "Closed")]_vars

C12_Witness ==
  \E s \in Sessions :
    /\ pc[s] = "Closed" /\ result[s] = "Ok"
    /\ command[s] = 1
    /\ \A d \in Directions : th[s][d] = "Done"

\* The writes of session s after the method selection reply: the replies of
\* the command handlers.
Replies(s) == IF cwrites[s] = <<>> THEN <<>> ELSE Tail(cwrites[s])

\* C13: every reply a command handler passes to write_all is 10 bytes long,
\* with byte 0 = 5, byte 1 in {0, 1}, byte 2 = 0, byte 3 = 1 and bytes 4..7
\* zero; status 1 is written exactly by a CONNECT whose connect failed.
C13_ReplyLayout ==
  \A s \in Sessions :
    \A i \in DOMAIN Replies(s) :
      LET r == Replies(s)[i] IN
        /\ Len(r) = 10
        /\ r[1] = 5
        /\ r[2] \in {0, 1}
        /\ r[3] = 0
        /\ r[4] = 1
        /\ \A j \in 5..8 : r[j] = 0
        /\ (r[2] = 1) <=> (command[s] = 1 /\ connect_res[s] = "Err")

\* Both replies of a BIND, and elsewhere a failed CONNECT's reply.
C13_Witness ==
  \E s \in Sessions :
    /\ command[s] = 2
    /\ Len(Replies(s)) = 2
    /\ Replies(s)[2][9] = 255 /\ Replies(s)[2][10] = 255
    /\ result[s] = "Ok"

\* The success reply that carries port p.
SuccessReply(p) == <<5, 0, 0, 1, 0, 0, 0, 0, p \div 256, p % 256>>

\* Session s relays nothing: no relay thread, no byte read for a tunnel and
\* no byte delivered but what handle_client wrote to the client.
NoRelay(s) ==
  /\ \A d \in Directions : th[s][d] = "NotStarted" /\ rsrc[s][d] = <<>>
  /\ sent[s].target = <<>>
  /\ TunnelPart(sent[s].client) = <<>>

\* Every write handle_client issued in session s was delivered whole.
AllDelivered(s) == Len(sent[s].client) = Len(DriverPart(sent[s].client))
                   /\ Len(sent[s].client) = 2 + 10 * (Len(cwrites[s]) - 1)

\* C14, as stated: a BIND session that has ended wrote a first success reply
\* with the listener's port, at most one more reply, identical to it, relayed
\* nothing and returned success.
C14_AsStated ==
  \A s \in Sessions :
    (command[s] = 2 /\ port_bytes[s] # <<>> /\ pc[s] = "Closed") =>
       /\ result[s] = "Ok"
       /\ Len(Replies(s)) \in {1, 2}
       /\ Replies(s)[1] = SuccessReply(bind_port[s])
       /\ Len(Replies(s)) = 2 => Replies(s)[2] = Replies(s)[1]
       /\ NoRelay(s)

\* C14, amended: in a BIND session the first reply is the success reply with
\* the listener's port and is delivered before handle_bind waits in accept;
\* the second reply is issued only by the step that follows a successful
\* accept and repeats the first byte for byte; nothing is relayed; the
\* handler returns Ok when every reply it issued was written (two replies,
\* or one when accept failed) and IoError when binding the listener or
\* writing a reply failed.
C14_BindReplies ==
  [][\A s \in Sessions :
       command'[s] = 2 =>
         /\ NoRelay(s)'
         /\ Len(cwrites'[s]) <= 3
         /\ Len(cwrites'[s]) >= 2 => cwrites'[s][2] = SuccessReply(bind_port'[s])
         /\ pc'[s] \in {"BindAccept", "BindReply2"} =>
              /\ Len(cwrites'[s]) = 2
              /\ Bytes(sent'[s].client) = <<5, 0>> \o SuccessReply(bind_port'[s])
         /\ ("accepted" \in open'[s]) <=> (pc'[s] = "BindReply2")
         /\ Len(cwrites'[s]) > Len(cwrites[s]) /\ Len(cwrites'[s]) = 3 =>
              /\ pc[s] = "BindReply2"
              /\ cwrites'[s][3] = cwrites[s][2]
         /\ (pc'[s] = "Closed" /\ port_bytes'[s] # <<>>) =>
              /\ open'[s] = {}
              /\ IF bind_port'[s] # NoByte /\ AllDelivered(s)'
                   THEN result'[s] = "Ok"
                   ELSE result'[s] = "IoError"
              /\ bind_port'[s] = NoByte => Len(cwrites'[s]) = 1]_vars

C14_Witness ==
  \E s \in Sessions :
    /\ command[s] = 2
    /\ pc[s] = "Closed" /\ result[s] = "Ok"
    /\ bind_port[s] = 1024
    /\ Replies(s) = << <<5, 0, 0, 1, 0, 0, 0, 0, 4, 0>>, <<5, 0, 0, 1, 0, 0, 0, 0, 4, 0>> >>

\* C15, as stated: a UDP ASSOCIATE session that has ended wrote exactly one
\* success reply, with the port of its UDP socket, returned success, relayed
\* nothing and holds no handle.
C15_AsStated ==
  \A s \in Sessions :
    (command[s] = 3 /\ port_bytes[s] # <<>> /\ pc[s] = "Closed") =>
       /\ result[s] = "Ok"
       /\ Replies(s) = <<SuccessReply(bind_port[s])>>
       /\ NoRelay(s)
       /\ open[s] = {}

\* C15, amended: in a UDP ASSOCIATE session at most one reply is issued, the
\* success reply with the port of the UDP socket bound just before; the step
\* that issues it closes the session, releasing the client connection and
\* the UDP socket; nothing is relayed; the session returns Ok when the reply
\* was written and IoError when binding the socket (no reply at all) or
\* writing the reply failed.
C15_UdpAssociate ==
  [][\A s \in Sessions :
       command'[s] = 3 =>
         /\ NoRelay(s)'
         /\ Len(cwrites'[s]) <= 2
         /\ Len(cwrites'[s]) = 2 =>
              /\ bind_port'[s] # NoByte
              /\ cwrites'[s][2] = SuccessReply(bind_port'[s])
              /\ pc'[s] = "Closed"
         /\ ("udp_socket" \in open'[s]) <=> (pc'[s] = "UdpReply")
         /\ (pc'[s] = "Closed" /\ port_bytes'[s] # <<>>) =>
              /\ open'[s] = {}
              /\ IF bind_port'[s] # NoByte
                   THEN /\ Len(cwrites'[s]) = 2
                        /\ result'[s] = (IF AllDelivered(s)' THEN "Ok" ELSE "IoError")
                   ELSE /\ Len(cwrites'[s]) = 1
                        /\ result'[s] = "IoError"]_vars

C15_Witness ==
  \E s \in Sessions :
    /\ command[s] = 3
    /\ pc[s] = "Closed" /\ result[s] = "Ok"
    /\ bind_port[s] = 65535
    /\ Replies(s) = << <<5, 0, 0, 1, 0, 0, 0, 0, 255, 255>> >>
    /\ open[s] = {}

\* Every handle a session can hold.
AllHandles == {"client", "client_clone1", "client_clone2", "target", "target_clone",
               "listener", "accepted", "udp_socket"}

\* C16: a Closed session holds no open socket handle, whatever the step that
\* closed it and whatever its result; until then it holds the client
\* connection, and a session that has not been accepted holds nothing.
C16_ResourceCleanup ==
  \A s \in Sessions :
    /\ open[s] \subseteq AllHandles
    /\ pc[s] = "Closed" => open[s] \cap AllHandles = {}
    /\ pc[s] = "NotAccepted" => open[s] = {}
    /\ pc[s] \notin {"NotAccepted", "Closed"} => open[s] \cap {"client", "client_clone1", "client_clone2"} # {}

\* The exit by a failed handle duplication, after the target was connected
\* and the success reply written.
C16_Witness ==
  \E s \in Sessions :
    /\ pc[s] = "Closed" /\ result[s] = "IoError"
    /\ command[s] = 1 /\ connect_res[s] = "Ok"
    /\ Len(cwrites[s]) = 2 /\ Len(sent[s].client) = 12
    /\ \A d \in Directions : th[s][d] = "NotStarted"
    /\ open[s] = {}

\* The reads and writes each thread of a CONNECT session may perform.
RelayOps(t) ==
  CASE t = "c2t" -> {<<"c2t", "r", "client">>, <<"c2t", "w", "target">>}
    [] t = "t2c" -> {<<"t2c", "r", "target">>, <<"t2c", "w", "client">>}
    [] OTHER     -> {<<"driver", "r", "client">>, <<"driver", "w", "client">>}

\* The threads that delivered a byte to connection c of session s.
WritersOf(s, c) == {sent[s][c][i][1] : i \in DOMAIN sent[s][c]}

\* C17: in a CONNECT relay the client->target thread only reads the client
\* and only writes the target, the target->client thread only reads the
\* target and only writes the client, so no connection is written by both;
\* and a step taken while a relay thread is running is never a read or a
\* write of the handle_client thread: the bytes it consumed, the writes it
\* issued and the bytes it delivered stay as they are.  (The operations and
\* the streams start empty, so they are looked at by the steps that change
\* them.)
C17_RelaySeparation ==
  [][\A s \in Sessions :
       /\ io'[s] # io[s] => \A op \in io'[s] : op \in RelayOps(op[1])
       /\ sent'[s] # sent[s] =>
            LET toTarget == WritersOf(s, "target")'
                toClient == WritersOf(s, "client")'
            IN  /\ toTarget \subseteq {"c2t"}
                /\ toClient \subseteq {"driver", "t2c"}
                /\ \A c \in Conns :
                     LET w == IF c = "target" THEN toTarget ELSE toClient
                     IN  ~ ("c2t" \in w /\ "t2c" \in w)
       /\ (\E d \in Directions : Copying(s, d) \/ Copying(s, d)') =>
            /\ nread'[s] = nread[s]
            /\ cwrites'[s] = cwrites[s]
            /\ sent'[s].client # sent[s].client =>
                 SelectSeq(sent'[s].client, ByDriver) = SelectSeq(sent[s].client, ByDriver)
            /\ io'[s] \ io[s] \subseteq RelayOps("c2t") \cup RelayOps("t2c")]_vars

\* Both threads are copying at once and each has read and written.
C17_Witness ==
  \E s \in Sessions :
    /\ \A d \in Directions : Copying(s, d)
    /\ RelayOps("c2t") \cup RelayOps("t2c") \subseteq io[s]
    /\ sent[s].target # <<>>
    /\ TunnelPart(sent[s].client) # <<>>

\* The bytes of the stream before the address: the handshake (2 and the
\* methods) and the 4-byte request header.
BeforeAddress(s) == 2 + header[s][2] + 4

\* The bytes the address of session s takes on the wire, by its type byte; L
\* is the length byte of a domain name.
WireLen(atyp, L) ==
  CASE atyp = 1 -> 4
    [] atyp = 3 -> 1 + L
    [] atyp = 4 -> 16

\* C18: when the port has been read, the parser has consumed, after the
\* 4-byte header, exactly 4 (type 0x01), 1+L (type 0x03, L the length byte,
\* 0 included) or 16 (type 0x04) address bytes and exactly 2 port bytes, and
\* the port is the big-endian value of these two; a session that ended
\* before the port was read, its address type being supported, consumed
\* fewer bytes than that, ended with IoError and wrote no reply to the
\* request.
C18_WireLength ==
  \A s \in Sessions :
    /\ port_bytes[s] # <<>> =>
         /\ address_type[s] \in {1, 3, 4}
         /\ address_type[s] = 3 => len[s] \in 0..255
         /\ nread[s] = BeforeAddress(s) + WireLen(address_type[s], len[s]) + 2
         /\ Len(port_bytes[s]) = 2
         /\ port[s] = port_bytes[s][1] * 256 + port_bytes[s][2]
    /\ pc[s] = "ReadPort" =>
         nread[s] = BeforeAddress(s) + WireLen(address_type[s], len[s])
    /\ (pc[s] = "Closed" /\ address_type[s] \in {1, 3, 4} /\ port_bytes[s] = <<>>) =>
         /\ result[s] = "IoError"
         /\ cwrites[s] = << <<5, 0>> >>
         /\ nread[s] >= BeforeAddress(s)
         /\ nread[s] < BeforeAddress(s) + 2 +
              (IF address_type[s] = 3 /\ len[s] = NoByte THEN 1
               ELSE WireLen(address_type[s], len[s]))
    /\ (pc[s] = "Closed" /\ command[s] = NoByte /\ cwrites[s] = << <<5, 0>> >>
          /\ Len(sent[s].client) = 2) =>
         /\ result[s] = "IoError"
         /\ nread[s] < BeforeAddress(s)

\* A domain name of length 0 was accepted and its request dispatched.
C18_Witness ==
  \E s \in Sessions :
    /\ address_type[s] = 3 /\ len[s] = 0
    /\ port_bytes[s] = <<31, 144>> /\ port[s] = 8080
    /\ nread[s] = BeforeAddress(s) + 3
    /\ pc[s] = "Connect"

\* The positions of handle_connect, handle_bind and handle_udp.
InHandler(p) ==
  p \in {"Connect", "ConnectReply", "ConnectFailReply", "Clone", "SpawnC2T", "SpawnT2C",
         "JoinC2T", "JoinT2C", "BindListen", "BindReply1", "BindAccept", "BindReply2",
         "UdpBind", "UdpReply"}

\* C19: the command is acted on only when the address and the port have been
\* read: a handler is entered, and UnsupportedCommand is returned, only with
\* a supported address type and the 2 port bytes read; a request whose
\* command and address type are both unsupported ends with
\* UnsupportedAddressType; a request with an unsupported command and a
\* supported address type that ends before its port is read ends with
\* IoError.
C19_CommandAfterAddress ==
  \A s \in Sessions :
    /\ (InHandler(pc[s]) \/ result[s] = "UnsupportedCommand" \/ connect_res[s] # "None"
          \/ bind_port[s] # NoByte) =>
         /\ address_type[s] \in {1, 3, 4}
         /\ Len(port_bytes[s]) = 2
         /\ nread[s] = 2 + header[s][2] + 4 + 2 +
              (IF address_type[s] = 1 THEN 4 ELSE IF address_type[s] = 4 THEN 16 ELSE 1 + len[s])
    /\ InHandler(pc[s]) => command[s] \in {1, 2, 3}
    /\ result[s] = "UnsupportedCommand" => command[s] \notin {1, 2, 3, NoByte}
    /\ (pc[s] = "Closed" /\ command[s] \notin {1, 2, 3, NoByte}) =>
         result[s] = (IF address_type[s] \notin {1, 3, 4} THEN "UnsupportedAddressType"
                      ELSE IF port_bytes[s] = <<>> THEN "IoError"
                      ELSE "UnsupportedCommand")

\* Command 0x05 with a domain name whose bytes never arrived in full.
C19_Witness ==
  \E s \in Sessions :
    /\ command[s] = 5 /\ address_type[s] = 3 /\ len[s] = 3
    /\ pc[s] = "Closed" /\ result[s] = "IoError"
    /\ port_bytes[s] = <<>>
    /\ nread[s] = 2 + header[s][2] + 4 + 1 + 2

\* Session s has started a relay thread or moved a tunnel byte.
Tunnelling(s) ==
  \/ \E d \in Directions : th[s][d] # "NotStarted" \/ rsrc[s][d] # <<>> \/ rbuf[s][d] # <<>>
  \/ sent[s].target # <<>>
  \/ \E i \in DOMAIN sent[s].client : sent[s].client[i][1] # "driver"

\* The client has received [5,0] and the 10 bytes of the success reply for
\* the requested port, all from handle_client, before anything else.
ReplyFirst(s) ==
  /\ Len(sent[s].client) >= 12
  /\ \A i \in 1..12 : sent[s].client[i][1] = "driver"
  /\ [i \in 1..12 |-> sent[s].client[i][2]]
       = <<5, 0, 5, 0, 0, 1, 0, 0, 0, 0, port_bytes[s][1], port_bytes[s][2]>>
  /\ \A i \in DOMAIN sent[s].client : i > 12 => sent[s].client[i][1] = "t2c"

\* C20: a relay thread is started, and a tunnel byte is read or delivered in
\* either direction, only when the client has already received the whole
\* success reply after the handshake reply; every byte of the target then
\* follows these 12 bytes on the client's stream, and the step that starts a
\* thread finds the reply already written.
C20_ReplyBeforeTunnel ==
  [][\A s \in Sessions :
       /\ Tunnelling(s)' =>
            /\ ReplyFirst(s)'
            /\ command'[s] = 1 /\ connect_res'[s] = "Ok"
            /\ Len(cwrites'[s]) = 2
       /\ (\E d \in Directions : th[s][d] = "NotStarted" /\ th'[s][d] # "NotStarted") =>
            /\ ReplyFirst(s)
            /\ sent'[s] = sent[s]]_vars

\* Bytes went both ways after the reply.
C20_Witness ==
  \E s \in Sessions :
    /\ Len(sent[s].client) = 13
    /\ sent[s].client[13] = <<"t2c", 9>>
    /\ sent[s].target = << <<"c2t", 7>> >>
    /\ port_bytes[s] = <<0, 80>>
====
